---- MODULE Spec2Model ----
(***************************************************************************)
(* Geo3GlobVisualizer: the globe hit-test (Globe.tsx) and the selection    *)
(* state of the application (App.tsx).                                     *)
(*                                                                         *)
(* Numbers.  Angles are whole degrees.  A length or a coordinate of a 3D   *)
(* point is a fixed-point number with Scale units to 1.0, so the unit      *)
(* sphere has radius Scale.  Math.sin and Math.cos are read from a table   *)
(* of sin(0..90 degrees); Math.asin and Math.atan2 return the whole degree *)
(* whose sine (direction) is nearest to the argument.  Every arithmetic    *)
(* step of the source is kept as a step, with rounding to the nearest      *)
(* unit where the source rounds to the nearest double.                     *)
(***************************************************************************)
EXTENDS Integers, Sequences, FiniteSets, Bags, TLC

\* ------------------------------------------------------------------ values

\* null / undefined, and a present value: a nullable value is <<>> or <<v>>.
NULL == <<>>
Some(v) == <<v>>
Val(o) == o[1]

Abs(a) == IF a < 0 THEN -a ELSE a

\* Nearest integer to a / b (b > 0), halves rounded up.
RoundDiv(a, b) == (2 * a + b) \div (2 * b)

\* JavaScript's % : the remainder takes the sign of the dividend.
JsRem(a, b) == IF a >= 0 THEN a % b ELSE -((-a) % b)

\* ------------------------------------------------------------ trigonometry

\* round(10000 * sin(d degrees)) for d = 0..90, at index d + 1.
SinTable ==
  << 0, 175, 349, 523, 698, 872, 1045, 1219, 1392, 1564, 1736, 1908, 2079,
     2250, 2419, 2588, 2756, 2924, 3090, 3256, 3420, 3584, 3746, 3907, 4067, 4226,
     4384, 4540, 4695, 4848, 5000, 5150, 5299, 5446, 5592, 5736, 5878, 6018, 6157,
     6293, 6428, 6561, 6691, 6820, 6947, 7071, 7193, 7314, 7431, 7547, 7660, 7771,
     7880, 7986, 8090, 8192, 8290, 8387, 8480, 8572, 8660, 8746, 8829, 8910, 8988,
     9063, 9135, 9205, 9272, 9336, 9397, 9455, 9511, 9563, 9613, 9659, 9703, 9744,
     9781, 9816, 9848, 9877, 9903, 9925, 9945, 9962, 9976, 9986, 9994, 9998, 10000 >>

\* The fixed-point unit: 1.0 is sin(90 degrees).
Scale == SinTable[91]

\* Math.sin of an angle in degrees, in units of 1/Scale.
Sin(d) ==
  LET a == d % 360
  IN  IF a <= 90 THEN SinTable[a + 1]
      ELSE IF a <= 180 THEN SinTable[180 - a + 1]
      ELSE IF a <= 270 THEN -SinTable[a - 180 + 1]
      ELSE -SinTable[360 - a + 1]

\* Math.cos of an angle in degrees, in units of 1/Scale.
Cos(d) == Sin(d + 90)

\* The largest angle in lo..hi whose sine is at most y (sin rises on -90..90).
RECURSIVE AsinIn(_, _, _)
AsinIn(y, lo, hi) ==
  IF lo >= hi THEN lo
  ELSE LET mid == (lo + hi + 1) \div 2
       IN  IF Sin(mid) <= y THEN AsinIn(y, mid, hi) ELSE AsinIn(y, lo, mid - 1)

\* Math.asin(y) in degrees: the angle in [-90, 90] whose sine is nearest y.
AsinDeg(y) ==
  LET a == AsinIn(y, -90, 90)
  IN  IF a < 90 /\ Sin(a + 1) - y < y - Sin(a) THEN a + 1 ELSE a

\* The largest angle t in lo..hi with the direction of t not past (x, y), for
\* x, y >= 0: the cross product cos t * y - sin t * x falls as t rises.
RECURSIVE AtanIn(_, _, _, _)
AtanIn(y, x, lo, hi) ==
  IF lo >= hi THEN lo
  ELSE LET mid == (lo + hi + 1) \div 2
       IN  IF Cos(mid) * y - Sin(mid) * x >= 0 THEN AtanIn(y, x, mid, hi)
           ELSE AtanIn(y, x, lo, mid - 1)

\* Math.atan2(y, x) in degrees: the angle whose direction is nearest the
\* direction of (x, y), found in the first quadrant and reflected into the
\* quadrant of (x, y); atan2(0, 0) is 0.
Atan2Deg(y, x) ==
  IF x = 0 /\ y = 0 THEN 0
  ELSE LET t0 == AtanIn(Abs(y), Abs(x), 0, 90)
           t == IF t0 < 90 /\ Sin(t0 + 1) * Abs(x) - Cos(t0 + 1) * Abs(y)
                                < Cos(t0) * Abs(y) - Sin(t0) * Abs(x)
                THEN t0 + 1 ELSE t0
       IN  IF x >= 0 THEN (IF y >= 0 THEN t ELSE -t)
           ELSE (IF y >= 0 THEN 180 - t ELSE t - 180)

\* floor(sqrt(n)) by bisection over lo..hi.
RECURSIVE SqrtIn(_, _, _)
SqrtIn(n, lo, hi) ==
  IF lo >= hi THEN lo
  ELSE LET mid == (lo + hi + 1) \div 2
       IN  IF mid * mid <= n THEN SqrtIn(n, mid, hi) ELSE SqrtIn(n, lo, mid - 1)

ISqrt(n) == SqrtIn(n, 0, 4 * Scale)

\* ----------------------------------------------------------- Vector3 (three)

Vec(x, y, z) == [x |-> x, y |-> y, z |-> z]

\* The number NaN, a value no coordinate takes.
NaN == Scale * Scale

\* Vector3.length
Length(v) == ISqrt(v.x * v.x + v.y * v.y + v.z * v.z)

\* Vector3.normalize: divides by the length, or by 1 when the length is 0.
Normalize(v) ==
  LET len == IF Length(v) = 0 THEN Scale ELSE Length(v)
  IN  Vec(RoundDiv(v.x * Scale, len), RoundDiv(v.y * Scale, len),
          RoundDiv(v.z * Scale, len))

\* Vector3.multiplyScalar, the scalar a whole number.
MultiplyScalar(v, k) == Vec(v.x * k, v.y * k, v.z * k)

\* ------------------------------------------------- Globe.tsx: conversions

\* The normalisation with the offset 180 in place of 540: the remainder of a
\* negative number is negative.
NormalizeLng_Offset180(lng) == JsRem(lng + 180, 360) - 180

\* ((lng + 540) % 360) - 180
NormalizeLng(lng) == JsRem(lng + 540, 360) - 180

\* The conversion without the negation of x.
getPositionFromLatLon_XNotNegated(lat, lng, radius) ==
  LET phi == 90 - lat
      theta == lng + 180
      rs == RoundDiv(radius * Sin(phi), Scale)
  IN  Vec(RoundDiv(rs * Cos(theta), Scale), RoundDiv(radius * Cos(phi), Scale),
          RoundDiv(rs * Sin(theta), Scale))

\* getPositionFromLatLon(lat, lng, radius): radius in units of 1/Scale. The
\* sine and cosine of NaN are NaN.
getPositionFromLatLon(lat, lng, radius) ==
  LET phi == 90 - lat
      theta == lng + 180
      rs == RoundDiv(radius * Sin(phi), Scale)
      x == -RoundDiv(rs * Cos(theta), Scale)
      z == RoundDiv(rs * Sin(theta), Scale)
      y == RoundDiv(radius * Cos(phi), Scale)
  IN  IF lat = NaN \/ lng = NaN THEN Vec(NaN, NaN, NaN) ELSE Vec(x, y, z)

\* The raw longitude taken from atan2(p.z, p.x), the x not negated.
RawLng_XNotNegated(point) ==
  LET p == Normalize(point)
  IN  Atan2Deg(p.z, p.x) - 180

\* The raw longitude of getLatLonFromPoint, before it is normalised.
RawLng(point) ==
  LET p == Normalize(point)
      theta == Atan2Deg(p.z, -p.x)
  IN  theta - 180

\* getLatLonFromPoint(point)
getLatLonFromPoint(point) ==
  LET p == Normalize(point)
      lat == AsinDeg(p.y)
  IN  [lat |-> lat, lng |-> NormalizeLng(RawLng(point))]


\* Object3D.localToWorld for the globe mesh, whose only transform is its
\* rotation.y (degrees here): x' = x cos a + z sin a, z' = -x sin a + z cos a.
localToWorld(angle, v) ==
  Vec(RoundDiv(v.x * Cos(angle) + v.z * Sin(angle), Scale),
      v.y,
      RoundDiv(v.z * Cos(angle) - v.x * Sin(angle), Scale))

\* Object3D.worldToLocal: the inverse rotation.
worldToLocal(angle, v) == localToWorld(-angle, v)

\* ------------------------------------------------------------ d3-geo calls

\* Whether the horizontal ray from point p = <<lng, lat>> eastwards crosses the
\* edge a-b of a ring.
Crosses(p, a, b) ==
  /\ (a[2] > p[2]) # (b[2] > p[2])
  /\ LET dy == b[2] - a[2]
         lhs == (p[1] - a[1]) * dy
         rhs == (p[2] - a[2]) * (b[1] - a[1])
     IN  IF dy > 0 THEN lhs < rhs ELSE lhs > rhs

\* The number of edges of a closed ring that the ray from p crosses.
RingCrossings(ring, p) ==
  Cardinality({i \in 1..(Len(ring) - 1) : Crosses(p, ring[i], ring[i + 1])})

RECURSIVE SumSeq(_)
SumSeq(s) == IF s = <<>> THEN 0 ELSE Head(s) + SumSeq(Tail(s))

\* d3-geo containsPolygon(coordinates, point): all the rings of the polygon are
\* handed to polygonContains, so a point within an inner ring is outside.
containsPolygon(coordinates, p) ==
  SumSeq([i \in 1..Len(coordinates) |-> RingCrossings(coordinates[i], p)]) % 2 = 1

\* A containment test that looks at the outer ring of each polygon only.
geoContains_OuterRingOnly(feature, p) ==
  LET geometry == feature.geometry
  IN  IF geometry = NULL THEN FALSE
      ELSE IF Val(geometry).type = "Polygon"
        THEN RingCrossings(Val(geometry).coordinates[1], p) % 2 = 1
      ELSE IF Val(geometry).type = "MultiPolygon"
        THEN \E i \in 1..Len(Val(geometry).coordinates) :
               RingCrossings(Val(geometry).coordinates[i][1], p) % 2 = 1
      ELSE FALSE

\* d3.geoContains(feature, point): false for a missing geometry and for a
\* geometry type it does not know.
geoContains(feature, p) ==
  LET geometry == feature.geometry
  IN  IF geometry = NULL THEN FALSE
      ELSE IF Val(geometry).type = "Polygon"
        THEN containsPolygon(Val(geometry).coordinates, p)
      ELSE IF Val(geometry).type = "MultiPolygon"
        THEN \E i \in 1..Len(Val(geometry).coordinates) :
               containsPolygon(Val(geometry).coordinates[i], p)
      ELSE FALSE

\* All the rings of a feature's geometry, outer and inner.
Rings(feature) ==
  LET geometry == feature.geometry
      Flat[i \in 0..Len(Val(geometry).coordinates)] ==
        IF i = 0 THEN <<>> ELSE Flat[i - 1] \o Val(geometry).coordinates[i]
  IN  IF geometry = NULL THEN <<>>
      ELSE IF Val(geometry).type = "Polygon" THEN Val(geometry).coordinates
      ELSE IF Val(geometry).type = "MultiPolygon"
        THEN Flat[Len(Val(geometry).coordinates)]
      ELSE <<>>

\* Twice the signed area of a ring, and its first moments (times 6).
RingArea2(ring) ==
  SumSeq([i \in 1..(Len(ring) - 1) |->
            ring[i][1] * ring[i + 1][2] - ring[i + 1][1] * ring[i][2]])

RingMoment(ring, k) ==
  SumSeq([i \in 1..(Len(ring) - 1) |->
            (ring[i][k] + ring[i + 1][k])
              * (ring[i][1] * ring[i + 1][2] - ring[i + 1][1] * ring[i][2])])

\* Nearest integer to a / b for b of either sign, b # 0.
RoundQuot(a, b) == IF b > 0 THEN RoundDiv(a, b) ELSE RoundDiv(-a, -b)

\* d3.geoCentroid(feature) = [lng, lat]: the area-weighted centroid of the
\* geometry, inner rings counting negatively (they wind the other way). A
\* missing geometry and a geometry of a type d3 does not know stream nothing,
\* and the centroid of nothing is [NaN, NaN].
geoCentroid(feature) ==
  LET rings == Rings(feature)
      area2 == SumSeq([i \in 1..Len(rings) |-> RingArea2(rings[i])])
      mx == SumSeq([i \in 1..Len(rings) |-> RingMoment(rings[i], 1)])
      my == SumSeq([i \in 1..Len(rings) |-> RingMoment(rings[i], 2)])
  IN  IF rings = <<>> THEN <<NaN, NaN>>
      ELSE <<RoundQuot(mx, 3 * area2), RoundQuot(my, 3 * area2)>>

\* ------------------------------------------------- the boundary dataset

\* A closed ring around the box west..east, south..north, and the same ring
\* wound the other way for an inner ring.
Box(w, s, e, n) == << <<w, s>>, <<w, n>>, <<e, n>>, <<e, s>>, <<w, s>> >>
Hole(w, s, e, n) == << <<w, s>>, <<e, s>>, <<e, n>>, <<w, n>>, <<w, s>> >>

Polygon(rings) == Some([type |-> "Polygon", coordinates |-> rings])
MultiPolygon(polygons) == Some([type |-> "MultiPolygon", coordinates |-> polygons])

Feature(nameLong, name, iso, geometry) ==
  [properties |-> [NAME_LONG |-> nameLong, NAME |-> name, name |-> NULL,
                   ISO_A2 |-> iso],
   geometry |-> geometry]

\* Country names are strings of characters.
Peru == <<"P", "e", "r", "u">>
Chad == <<"C", "h", "a", "d">>
Mali == <<"M", "a", "l", "i">>
Fiji == <<"F", "i", "j", "i">>
Antarctica == <<"A", "n", "t", "a", "r", "c", "t", "i", "c", "a">>

\* Peru encloses Chad in an inner ring, as South Africa encloses Lesotho.
FPeru == Feature(Peru, Peru, "PE",
                 Polygon(<<Box(-40, -40, 40, 40), Hole(-10, -10, 10, 10)>>))
FChad == Feature(Chad, Chad, "TD",
                 Polygon(<<Box(-10, -10, 10, 10)>>))
\* Mali has no NAME_LONG, and its boundary overlaps Peru's between
\* longitudes 10 and 40.
FMali == Feature(NULL, Mali, "ML", Polygon(<<Box(10, -30, 50, 30)>>))
\* Fiji is two islands, its centroid in the sea between them; its NAME is
\* abbreviated and it has no ISO code.
FFiji == Feature(Fiji, <<"F", "i", "j", "i", " ", "I", "s", ".">>, "",
                 MultiPolygon(<< <<Box(100, -10, 120, 10)>>,
                                 <<Box(140, -10, 160, 10)>> >>))
FAntarctica == Feature(Antarctica, Antarctica, "AQ",
                       Polygon(<<Box(-170, -80, 170, -60)>>))

\* Lost has no geometry. Oz has a geometry of a type d3 does not know, whose
\* coordinates would surround every click were they a polygon's.
Lost == <<"L", "o", "s", "t">>
Oz == <<"O", "z">>
FLost == Feature(Lost, Lost, "LO", NULL)
FOz == Feature(Oz, Oz, "OZ",
               Some([type |-> "Curve", coordinates |-> <<Box(-180, -90, 180, 90)>>]))

\* The datasets the fetch of GEOJSON_URL may deliver: sequences of features.
Datasets ==
  { <<FPeru, FChad, FMali, FFiji, FAntarctica>>,
    <<FLost, FMali, FOz, FPeru, FChad>> }

\* --------------------------------------------------------------- bounds

\* Details requests in flight at once.
MaxPending == 2

\* The texts typed into the search box.
Queries == { <<"P", "E">>, <<"i">> }

\* The angles (degrees) at which the idle rotation of the globe mesh is
\* observed: rotation.y starts at 0 and only grows.
Rotations == {0, 30}

\* The world points a click can deliver (e.point of the raycast on the globe
\* mesh): the sphere points at these <<lat, lng>>.
ClickCoords == { <<0, 0>>, <<0, 30>>, <<0, -140>>, <<0, 130>>, <<-70, 0>> }

ClickPoints == {getPositionFromLatLon(c[1], c[2], Scale) : c \in ClickCoords}

\* ------------------------------------------------------------------ strings

LowerCase == <<"a", "b", "c", "d", "e", "f", "g", "h", "i", "j", "k", "l", "m",
               "n", "o", "p", "q", "r", "s", "t", "u", "v", "w", "x", "y", "z">>
UpperCase == <<"A", "B", "C", "D", "E", "F", "G", "H", "I", "J", "K", "L", "M",
               "N", "O", "P", "Q", "R", "S", "T", "U", "V", "W", "X", "Y", "Z">>

Letters == {LowerCase[i] : i \in 1..26} \cup {UpperCase[i] : i \in 1..26}

LetterIndex ==
  [ch \in Letters |-> CHOOSE i \in 1..26 : ch \in {LowerCase[i], UpperCase[i]}]

\* The place of a letter in the alphabet, whatever its case; 0 for others.
Letter(ch) == IF ch \in Letters THEN LetterIndex[ch] ELSE 0

\* String.prototype.toLowerCase
toLowerCase(str) ==
  [i \in 1..Len(str) |-> IF Letter(str[i]) = 0 THEN str[i] ELSE LowerCase[Letter(str[i])]]

\* String.prototype.includes
includes(str, part) ==
  \E i \in 0..(Len(str) - Len(part)) :
    \A j \in 1..Len(part) : str[i + j] = part[j]

\* a.localeCompare(b) < 0, = 0, > 0 as -1, 0, 1: letter by letter in
\* alphabetical order, a prefix before the longer string.
RECURSIVE localeCompare(_, _)
localeCompare(a, b) ==
  IF a = <<>> /\ b = <<>> THEN 0
  ELSE IF a = <<>> THEN -1
  ELSE IF b = <<>> THEN 1
  ELSE IF Letter(Head(a)) < Letter(Head(b)) THEN -1
  ELSE IF Letter(Head(a)) > Letter(Head(b)) THEN 1
  ELSE localeCompare(Tail(a), Tail(b))

\* a || b for strings: the empty string and undefined are falsy.
OrElse(a, b) == IF a # <<>> THEN a ELSE b

\* ------------------------------------------------- App.tsx: country list

\* A name for the search list that prefers NAME to NAME_LONG.
AppFeatureName_NameFirst(feature) ==
  OrElse(feature.properties.NAME,
         OrElse(feature.properties.NAME_LONG, feature.properties.name))

\* App.tsx:35  NAME_LONG || NAME || name
AppFeatureName(feature) ==
  OrElse(feature.properties.NAME_LONG,
         OrElse(feature.properties.NAME, feature.properties.name))

\* App.tsx:33-42  the record of one feature in the search list
AppCountry(feature) ==
  [name |-> AppFeatureName(feature),
   code |-> feature.properties.ISO_A2,
   centroid |-> [lat |-> geoCentroid(feature)[2], lng |-> geoCentroid(feature)[1]]]

\* Array.prototype.sort with the comparator of App.tsx:46 (a stable insertion
\* of each element after the elements that do not compare greater).
RECURSIVE SortByName(_)
SortByName(list) ==
  IF list = <<>> THEN <<>>
  ELSE LET rest == SortByName(SubSeq(list, 1, Len(list) - 1))
           last == list[Len(list)]
           n == Cardinality({i \in 1..Len(rest) :
                               localeCompare(rest[i].name, last.name) <= 0})
       IN  SubSeq(rest, 1, n) \o <<last>> \o SubSeq(rest, n + 1, Len(rest))

\* App.tsx:33-47  countriesList: mapped, Antarctica filtered out, sorted.
CountriesList(data) ==
  SortByName(SelectSeq([i \in 1..Len(data) |-> AppCountry(data[i])],
                       LAMBDA c : c.name # Antarctica))

\* ---------------------------------------------- Globe.tsx: country records

\* Globe.tsx:58  NAME_LONG || NAME || name
GlobeFeatureName(feature) ==
  OrElse(feature.properties.NAME_LONG,
         OrElse(feature.properties.NAME, feature.properties.name))

\* A record whose centroid takes d3's [lng, lat] pair as [lat, lng].
GlobeCountry_LatLngSwapped(feature) ==
  [name |-> GlobeFeatureName(feature),
   isoCode |-> feature.properties.ISO_A2,
   centroid |-> [lat |-> geoCentroid(feature)[1], lng |-> geoCentroid(feature)[2]],
   position |-> getPositionFromLatLon(geoCentroid(feature)[2],
                                      geoCentroid(feature)[1], Scale),
   feature |-> feature]

\* Globe.tsx:56-68  the record of one feature
GlobeCountry(feature) ==
  [name |-> GlobeFeatureName(feature),
   isoCode |-> feature.properties.ISO_A2,
   centroid |-> [lat |-> geoCentroid(feature)[2], lng |-> geoCentroid(feature)[1]],
   position |-> getPositionFromLatLon(geoCentroid(feature)[2],
                                      geoCentroid(feature)[1], Scale),
   feature |-> feature]

\* Globe.tsx:56-69  the records of the features of a dataset
CountryRecords(data) == [i \in 1..Len(data) |-> GlobeCountry(data[i])]

\* Globe.tsx:54-70  countries = useMemo(..., [geoJson]): the memo, one entry
\* for each dataset
CountriesMemo == [data \in Datasets |-> CountryRecords(data)]

Countries(data) == IF data = NULL THEN <<>> ELSE CountriesMemo[Val(data)]

\* Array.prototype.find by name: the first record of that name, or NULL.
FindByName(list, name) ==
  IF \E i \in 1..Len(list) : list[i].name = name
    THEN Some(list[CHOOSE i \in 1..Len(list) :
                     /\ list[i].name = name
                     /\ \A j \in 1..(i - 1) : list[j].name # name])
    ELSE NULL

\* A scan without the break: the last record that contains the point.
FindCountry_LastMatch(list, coords) ==
  LET containing == {i \in 1..Len(list) :
                       geoContains(list[i].feature, <<coords.lng, coords.lat>>)}
  IN  IF containing = {} THEN NULL
      ELSE Some(list[CHOOSE i \in containing : \A j \in containing : i >= j])

\* A scan that a record without a polygon geometry brings to an end: nothing
\* after such a record is found.
FindCountry_AbortsOnBadGeometry(list, coords) ==
  LET containing == {i \in 1..Len(list) :
                       geoContains(list[i].feature, <<coords.lng, coords.lat>>)}
      bad == {i \in 1..Len(list) :
                \/ list[i].feature.geometry = NULL
                \/ Val(list[i].feature.geometry).type \notin {"Polygon", "MultiPolygon"}}
      first == CHOOSE i \in containing : \A j \in containing : i <= j
  IN  IF containing = {} \/ (\E b \in bad : b < first) THEN NULL
      ELSE Some(list[first])

\* Globe.tsx:136-143  the scan of the hit-test: the first record in the order
\* of the list whose feature contains [lng, lat], or NULL.
FindCountry(list, coords) ==
  LET containing == {i \in 1..Len(list) :
                       geoContains(list[i].feature, <<coords.lng, coords.lat>>)}
  IN  IF containing = {} THEN NULL
      ELSE Some(list[CHOOSE i \in containing : \A j \in containing : i <= j])

\* Globe.tsx:131  the local point of a clicked world point, for each rotation
\* of the mesh
LocalPoints ==
  [rotation \in Rotations, point \in ClickPoints |-> worldToLocal(rotation, point)]

\* Globe.tsx:134  the coordinates of that local point
LocalCoords ==
  [rotation \in Rotations, point \in ClickPoints |->
     getLatLonFromPoint(LocalPoints[rotation, point])]

\* Globe.tsx:136-143  the country found at each of those coordinates
Located ==
  [coords \in {LocalCoords[r, p] : r \in Rotations, p \in ClickPoints},
   data \in Datasets |->
     FindCountry(CountriesMemo[data], coords)]

\* The positions of the records of the datasets.
Positions ==
  UNION {{CountriesMemo[data][i].position : i \in 1..Len(data)} : data \in Datasets}

\* Globe.tsx:154-157 and 78-84  the camera position for a position on the
\* mesh: the position taken to world space, normalised, times 2.0.
CamPosOf ==
  [rotation \in Rotations, position \in Positions |->
     IF position.x = NaN THEN position
     ELSE MultiplyScalar(Normalize(localToWorld(rotation, position)), 2)]

\* The camera position for a country.
CamPos(rotation, country) == CamPosOf[rotation, country.position]

\* Globe.tsx:171  the default view (0, 0, 3.5)
DefaultView == Vec(0, 0, (7 * Scale) \div 2)

\* App.tsx:99  the camera of the Canvas starts at (0, 0, 2.5)
InitialCamera == Vec(0, 0, (5 * Scale) \div 2)

\* ---------------------------------------------------------------- state

VARIABLES
  theme,                \* App: Theme.LIGHT or Theme.DARK
  selectedLocation,     \* App: Coordinates | null
  selectedCountryName,  \* App: string | null
  countryData,          \* App: CountryData | null
  isLoading,            \* App: boolean
  geoJson,              \* App: the fetched dataset | null
  allCountries,         \* App: the search list
  searchQuery,          \* App: string
  isSearchOpen,         \* App: boolean
  pending,              \* the bag of getCountryDetailsByName calls awaited
  globeMounted,         \* Globe: meshRef.current and controlsRef.current are set
  rotationY,            \* Globe: meshRef.current.rotation.y, in degrees
  lookAt,               \* CameraControls: the position of the last setLookAt
  lastEvent,            \* the event handled last, with the locals of its handler
  activeTab,            \* CountryCard: 'info', 'chat' or 'race'
  chatHistory,          \* CountryCard: ChatMessage[]
  inputMessage,         \* CountryCard: string
  isTyping,             \* CountryCard: boolean
  race,                 \* CountryCard: BarRacePayload | null
  raceStatus,           \* CountryCard: 'idle', 'generating', 'ready' or 'error'
  raceError,            \* CountryCard: string
  raceFrameIndex,       \* CountryCard: number
  racePlaying,          \* CountryCard: boolean
  lastRaceQuery,        \* CountryCard: string
  chats,                \* the createChatStream calls awaited, by modelMsgId
  races                 \* the number of generateBarRacePayload calls awaited

selectionVars == <<selectedLocation, selectedCountryName>>
searchVars == <<searchQuery, isSearchOpen>>
dataVars == <<geoJson, allCountries>>
appVars == <<theme, selectedLocation, selectedCountryName, countryData, isLoading,
             geoJson, allCountries, searchQuery, isSearchOpen, pending>>
globeVars == <<globeMounted, rotationY, lookAt>>
raceVars == <<race, raceStatus, raceError, raceFrameIndex, racePlaying, lastRaceQuery>>
chatVars == <<chatHistory, inputMessage, isTyping>>
cardVars == <<activeTab, chatVars, raceVars, chats, races>>
vars == <<theme, selectedLocation, selectedCountryName, countryData, isLoading,
          geoJson, allCountries, searchQuery, isSearchOpen, pending,
          globeMounted, rotationY, lookAt, lastEvent,
          activeTab, chatHistory, inputMessage, isTyping, race, raceStatus,
          raceError, raceFrameIndex, racePlaying, lastRaceQuery, chats, races>>

\* An event: its kind ("click", "search", "close", "response", "load", "mount",
\* or "other" for the events that name no country); for a click the local
\* point and the coordinates the hit-test computed from it; and the name of
\* the country the event is about (the country found, the entry chosen) or
\* NULL.
Event(kind, point, coords, found) ==
  [kind |-> kind, point |-> point, coords |-> coords, found |-> found]

\* Globe: countries, the memo over the geoJson prop
countries == Countries(geoJson)

\* A result list that is not cut after five entries.
filteredCountries_NoLimit ==
  IF searchQuery = <<>> THEN <<>>
  ELSE SelectSeq(allCountries,
         LAMBDA c : includes(toLowerCase(c.name), toLowerCase(searchQuery)))

\* App.tsx:85-90  filteredCountries
filteredCountries ==
  IF searchQuery = <<>> THEN <<>>
  ELSE LET hits == SelectSeq(allCountries,
                     LAMBDA c : includes(toLowerCase(c.name), toLowerCase(searchQuery)))
       IN  SubSeq(hits, 1, IF Len(hits) < 5 THEN Len(hits) ELSE 5)

Init ==
  /\ theme = "light"
  /\ selectedLocation = NULL
  /\ selectedCountryName = NULL
  /\ countryData = NULL
  /\ isLoading = FALSE
  /\ geoJson = NULL
  /\ allCountries = <<>>
  /\ searchQuery = <<>>
  /\ isSearchOpen = FALSE
  /\ pending = EmptyBag
  /\ globeMounted = FALSE
  /\ rotationY = 0
  /\ lookAt = InitialCamera
  /\ lastEvent = Event("init", NULL, NULL, NULL)
  /\ activeTab = "info"
  /\ chatHistory = <<>>
  /\ inputMessage = <<>>
  /\ isTyping = FALSE
  /\ race = NULL
  /\ raceStatus = "idle"
  /\ raceError = <<>>
  /\ raceFrameIndex = 0
  /\ racePlaying = TRUE
  /\ lastRaceQuery = <<>>
  /\ chats = {}
  /\ races = 0

\* ----------------------------------------------------- Globe.tsx: effects

\* An effect that leaves the rotation of the mesh out of account.
SelectionEffect_RotationIgnored(name, list, rotation, look) ==
  IF name # NULL /\ Val(name) # <<>> /\ Len(list) > 0
       /\ FindByName(list, Val(name)) # NULL
    THEN CamPos(0, Val(FindByName(list, Val(name))))
    ELSE look

\* Globe.tsx:73-92  the effect on [selectedCountryName, countries]: the camera
\* position it sets, or `look` when it sets none.
SelectionEffect(name, list, rotation, look) ==
  IF name # NULL /\ Val(name) # <<>> /\ Len(list) > 0
       /\ FindByName(list, Val(name)) # NULL
    THEN CamPos(rotation, Val(FindByName(list, Val(name))))
    ELSE look

\* Globe.tsx:168-173  the effect on [selectedLocation]
ResetEffect(location, look) == IF location = NULL THEN DefaultView ELSE look

\* The effects of the Globe that run after a render in which the App state
\* went from (name, location) to (name', location'), the camera being at
\* `look` when the handler returned: an effect runs when one of its
\* dependencies changed, and only in a mounted Globe.
AfterRender(look) ==
  LET look1 == IF globeMounted /\ selectedCountryName' # selectedCountryName
                 THEN SelectionEffect(selectedCountryName', countries, rotationY, look)
                 ELSE look
  IN  IF globeMounted /\ selectedLocation' # selectedLocation
        THEN ResetEffect(selectedLocation', look1)
        ELSE look1

\* ------------------------------------------------------ App.tsx: handlers

\* A fetch that runs again after the first load.
LoadGeoJson_Refetch(data) ==
  /\ geoJson' = Some(data)
  /\ allCountries' = CountriesList(data)
  /\ lastEvent' = Event("load", NULL, NULL, NULL)
  /\ UNCHANGED <<theme, selectedLocation, selectedCountryName, countryData,
                 isLoading, searchQuery, isSearchOpen, pending, globeVars>>
  /\ UNCHANGED cardVars

\* App.tsx:27-50  the fetch of the dataset resolves
LoadGeoJson(data) ==
  /\ geoJson = NULL
  /\ geoJson' = Some(data)
  /\ allCountries' = CountriesList(data)
  /\ lastEvent' = Event("load", NULL, NULL, NULL)
  /\ UNCHANGED <<theme, selectedLocation, selectedCountryName, countryData,
                 isLoading, searchQuery, isSearchOpen, pending, globeVars>>
  /\ UNCHANGED cardVars

\* The textures are loaded and the Globe mounts (App.tsx:100-110,
\* Globe.tsx:44-49): its refs are set and both effects run.
MountGlobe ==
  /\ geoJson # NULL
  /\ ~globeMounted
  /\ globeMounted' = TRUE
  /\ lookAt' = ResetEffect(selectedLocation,
                 SelectionEffect(selectedCountryName, countries, rotationY, lookAt))
  /\ lastEvent' = Event("mount", NULL, NULL, NULL)
  /\ UNCHANGED <<appVars, rotationY>>
  /\ UNCHANGED cardVars

\* App.tsx:52-54
toggleTheme ==
  /\ theme' = IF theme = "light" THEN "dark" ELSE "light"
  /\ lastEvent' = Event("other", NULL, NULL, NULL)
  /\ UNCHANGED <<selectedLocation, selectedCountryName, countryData, isLoading,
                 geoJson, allCountries, searchQuery, isSearchOpen, pending, globeVars>>
  /\ UNCHANGED cardVars

\* A handler without the early return.
handleCountrySelect_NoEarlyReturn(name, coords, isoCode) ==
  /\ BagCardinality(pending) < MaxPending
  /\ searchQuery' = <<>>
  /\ isSearchOpen' = FALSE
  /\ selectedLocation' = Some(coords)
  /\ selectedCountryName' = Some(name)
  /\ isLoading' = TRUE
  /\ countryData' = NULL
  /\ pending' = pending (+) SetToBag({[name |-> name, coords |-> coords,
                                         isoCode |-> isoCode]})

\* App.tsx:56-70  handleCountrySelect up to its await: the state it sets and
\* the request it leaves in flight.
handleCountrySelect(name, coords, isoCode) ==
  IF selectedCountryName = Some(name) /\ countryData # NULL
    THEN UNCHANGED <<searchQuery, isSearchOpen, selectedLocation,
                     selectedCountryName, isLoading, countryData, pending>>
    ELSE /\ BagCardinality(pending) < MaxPending
         /\ searchQuery' = <<>>
         /\ isSearchOpen' = FALSE
         /\ selectedLocation' = Some(coords)
         /\ selectedCountryName' = Some(name)
         /\ isLoading' = TRUE
         /\ countryData' = NULL
         /\ pending' = pending (+) SetToBag({[name |-> name, coords |-> coords,
                                                isoCode |-> isoCode]})

\* What the API call of a details request meets: a parsed answer, an answer
\* without content, a missing API key, a rejected fetch, an HTTP error status,
\* a body that is not JSON, content that is not JSON, content that is the
\* JSON null.
Outcomes == {"parsed", "empty", "no key", "fetch rejected", "http error",
             "bad body", "bad json", "null json"}

\* openAIService.ts:8-33  callOpenAI: whether it throws, and the content of
\* the first choice of the body it returns
callOpenAI(outcome) ==
  [threw |-> outcome \in {"no key", "fetch rejected", "http error", "bad body"},
   content |-> IF outcome = "empty" THEN NULL ELSE Some(outcome)]

\* How an async function settles: it resolves to a value or rejects.
Resolved(value) == [rejected |-> FALSE, value |-> value]
Rejected == [rejected |-> TRUE, value |-> NULL]

\* openAIService.ts:78-86  the record built from the parsed content
ParsedRecord(countryName, coords) ==
  [name |-> countryName, flagEmoji |-> "parsed", capital |-> "parsed",
   description |-> "parsed", population |-> "parsed",
   touristSites |-> <<"parsed">>, coordinates |-> coords, code |-> ""]

\* openAIService.ts:89-97  the record returned from the catch block
FallbackRecord(countryName, coords) ==
  [name |-> countryName, flagEmoji |-> "white flag", capital |-> "Unknown",
   description |-> "Could not load details at this time.",
   population |-> "Unknown", touristSites |-> <<>>,
   coordinates |-> coords, code |-> ""]

\* openAIService.ts:44-86  the try block: it returns a value or throws
\* (callOpenAI threw, JSON.parse threw, or a field of null was read).
TryDetails(countryName, coords, outcome) ==
  LET data == callOpenAI(outcome)
  IN  IF data.threw THEN Rejected
      ELSE IF data.content = NULL THEN Resolved(NULL)
      ELSE IF outcome \in {"bad json", "null json"} THEN Rejected
      ELSE Resolved(Some(ParsedRecord(countryName, coords)))

\* The function without its catch block: what the try block throws rejects
\* the promise.
getCountryDetailsByName_NoCatch(countryName, coords, outcome) ==
  TryDetails(countryName, coords, outcome)

\* openAIService.ts:39-99  getCountryDetailsByName: how its promise settles
getCountryDetailsByName(countryName, coords, outcome) ==
  LET tried == TryDetails(countryName, coords, outcome)
  IN  IF tried.rejected THEN Resolved(Some(FallbackRecord(countryName, coords)))
      ELSE tried

\* App.tsx:70  the call of a request in flight
Details(request, outcome) ==
  getCountryDetailsByName(request.name, request.coords, outcome)

\* App.tsx:70-77  handleCountrySelect after its await, for one of the calls
\* in flight: a rejected promise throws at the await and nothing after it
\* runs.
DetailsResponse(request, outcome) ==
  LET settled == Details(request, outcome)
      data == settled.value
  IN  /\ BagIn(request, pending)
      /\ IF settled.rejected
           THEN UNCHANGED <<countryData, isLoading>>
           ELSE /\ countryData' =
                     IF data # NULL
                       THEN Some([Val(data) EXCEPT
                                    !.code = IF request.isoCode # "" THEN request.isoCode
                                             ELSE Val(data).code])
                       ELSE countryData
                /\ isLoading' = FALSE
      /\ pending' = pending (-) SetToBag({request})
      /\ lastEvent' = Event("response", NULL, NULL, NULL)
      /\ UNCHANGED <<theme, selectedLocation, selectedCountryName, geoJson,
                     allCountries, searchQuery, isSearchOpen, globeVars>>
      /\ UNCHANGED cardVars

\* A close handler that leaves selectedLocation as it is.
handleCloseCard_LocationKept ==
  /\ countryData # NULL \/ isLoading
  /\ selectedLocation' = selectedLocation
  /\ selectedCountryName' = NULL
  /\ countryData' = NULL
  /\ lookAt' = AfterRender(lookAt)
  /\ lastEvent' = Event("close", NULL, NULL, NULL)
  /\ UNCHANGED <<theme, isLoading, geoJson, allCountries, searchQuery,
                 isSearchOpen, pending, globeMounted, rotationY>>
  /\ UNCHANGED cardVars

\* App.tsx:79-83  handleCloseCard, the close button of the card
\* (CountryCard.tsx:294: the card shows while country || isLoading)
handleCloseCard ==
  /\ countryData # NULL \/ isLoading
  /\ selectedLocation' = NULL
  /\ selectedCountryName' = NULL
  /\ countryData' = NULL
  /\ lookAt' = AfterRender(lookAt)
  /\ lastEvent' = Event("close", NULL, NULL, NULL)
  /\ UNCHANGED <<theme, isLoading, geoJson, allCountries, searchQuery,
                 isSearchOpen, pending, globeMounted, rotationY>>
  /\ UNCHANGED cardVars

\* App.tsx:144-147  onChange of the search input
SetSearchQuery(text) ==
  /\ text # searchQuery
  /\ searchQuery' = text
  /\ isSearchOpen' = TRUE
  /\ lastEvent' = Event("other", NULL, NULL, NULL)
  /\ UNCHANGED <<theme, selectedLocation, selectedCountryName, countryData,
                 isLoading, geoJson, allCountries, pending, globeVars>>
  /\ UNCHANGED cardVars

\* App.tsx:148  onFocus of the search input
FocusSearch ==
  /\ isSearchOpen' = TRUE
  /\ lastEvent' = Event("other", NULL, NULL, NULL)
  /\ UNCHANGED <<theme, selectedLocation, selectedCountryName, countryData,
                 isLoading, geoJson, allCountries, searchQuery, pending, globeVars>>
  /\ UNCHANGED cardVars

\* App.tsx:150-154  the clear button of the search input
ClearSearch ==
  /\ searchQuery # <<>>
  /\ searchQuery' = <<>>
  /\ lastEvent' = Event("other", NULL, NULL, NULL)
  /\ UNCHANGED <<theme, selectedLocation, selectedCountryName, countryData,
                 isLoading, geoJson, allCountries, isSearchOpen, pending, globeVars>>
  /\ UNCHANGED cardVars

\* App.tsx:158-171  a click on an entry of the search results
SearchSelect ==
  /\ isSearchOpen
  /\ searchQuery # <<>>
  /\ LET offered == filteredCountries
     IN  \E i \in 1..Len(offered) :
           /\ handleCountrySelect(offered[i].name, offered[i].centroid, offered[i].code)
           /\ lastEvent' = Event("search", NULL, NULL, Some(offered[i].name))
  /\ lookAt' = AfterRender(lookAt)
  /\ UNCHANGED <<theme, geoJson, allCountries, globeMounted, rotationY>>
  /\ UNCHANGED cardVars

\* ---------------------------------------------------- Globe.tsx: handlers

\* Globe.tsx:118-124  useFrame: the globe turns while nothing is selected
Frame ==
  /\ globeMounted
  /\ selectedLocation = NULL
  /\ rotationY' \in {r \in Rotations : r > rotationY}
  /\ lastEvent' = Event("other", NULL, NULL, NULL)
  /\ UNCHANGED <<appVars, globeMounted, lookAt>>
  /\ UNCHANGED cardVars

\* Globe.tsx:131-134  the local point of a click at world point `point`, and
\* its coordinates
LocalPoint(point) == LocalPoints[rotationY, point]
HitCoords(point) == LocalCoords[rotationY, point]

\* A hit-test that remembers the selection: the selected country is found
\* again wherever its boundary contains the point.
HitTest_PrefersSelected(point) ==
  LET selected == IF selectedCountryName = NULL THEN NULL
                  ELSE FindByName(countries, Val(selectedCountryName))
      coords == HitCoords(point)
  IN  IF selected # NULL
           /\ geoContains(Val(selected).feature, <<coords.lng, coords.lat>>)
        THEN selected
        ELSE Located[coords, Val(geoJson)]

\* Globe.tsx:136-143  the country found
HitTest(point) == Located[HitCoords(point), Val(geoJson)]

\* A selection whose request is awaited before the state is written: the
\* click ends with the request in flight and the selection as it was.
handleSelectCountry_AwaitsFirst(country) ==
  /\ BagCardinality(pending) < MaxPending
  /\ pending' = pending (+) SetToBag({[name |-> country.name,
                                         coords |-> country.centroid,
                                         isoCode |-> country.isoCode]})
  /\ UNCHANGED <<searchQuery, isSearchOpen, selectedLocation, selectedCountryName,
                 isLoading, countryData>>
  /\ lookAt' = AfterRender(CamPos(rotationY, country))

\* Globe.tsx:150-165  handleSelectCountry, with the effects of the render
\* that follows
handleSelectCountry(country) ==
  /\ handleCountrySelect(country.name, country.centroid, country.isoCode)
  /\ lookAt' = AfterRender(CamPos(rotationY, country))

\* A click on no country that deselects.
NoCountryFound_Deselects ==
  /\ selectedLocation' = NULL
  /\ selectedCountryName' = NULL
  /\ countryData' = NULL
  /\ lookAt' = AfterRender(lookAt)
  /\ UNCHANGED <<searchQuery, isSearchOpen, isLoading, pending>>

\* Globe.tsx:145-147  no country was found: the handler returns
NoCountryFound ==
  UNCHANGED <<searchQuery, isSearchOpen, selectedLocation, selectedCountryName,
              isLoading, countryData, pending, lookAt>>

\* Globe.tsx:126-148  handleGlobeClick
handleGlobeClick(point) ==
  /\ geoJson # NULL
  /\ globeMounted
  /\ LET foundCountry == HitTest(point)
     IN  /\ lastEvent' = Event("click", Some(LocalPoint(point)), Some(HitCoords(point)),
                               IF foundCountry = NULL THEN NULL
                               ELSE Some(Val(foundCountry).name))
         /\ IF foundCountry # NULL
              THEN handleSelectCountry(Val(foundCountry))
              ELSE NoCountryFound
  /\ UNCHANGED <<theme, geoJson, allCountries, globeMounted, rotationY>>
  /\ UNCHANGED cardVars

Next ==
  \/ \E data \in Datasets : LoadGeoJson(data)
  \/ MountGlobe
  \/ toggleTheme
  \/ \E request \in BagToSet(pending), outcome \in Outcomes :
       DetailsResponse(request, outcome)
  \/ handleCloseCard
  \/ \E text \in Queries : SetSearchQuery(text)
  \/ FocusSearch
  \/ ClearSearch
  \/ SearchSelect
  \/ Frame
  \/ \E point \in ClickPoints : handleGlobeClick(point)

Spec == Init /\ [][Next]_vars

\* ================================================== CountryCard.tsx
\*
\* Spec above follows App and Globe and leaves the card as it is constructed;
\* CardSpec below follows the card, with App as its environment: of App's
\* state only the `country` prop (countryData) changes.

\* ------------------------------------------------------------- strings

Space == " "

\* String.prototype.trim, for the strings of the model: sequences of
\* characters whose only white space is the space.
RECURSIVE trimStart(_)
trimStart(str) ==
  IF str # <<>> /\ Head(str) = Space THEN trimStart(Tail(str)) ELSE str

RECURSIVE trimEnd(_)
trimEnd(str) ==
  IF str # <<>> /\ str[Len(str)] = Space
    THEN trimEnd(SubSeq(str, 1, Len(str) - 1))
    ELSE str

trim(str) == trimEnd(trimStart(str))

\* String.prototype.startsWith
startsWith(str, prefix) ==
  /\ Len(prefix) <= Len(str)
  /\ SubSeq(str, 1, Len(prefix)) = prefix

SlashRace == <<"/", "r", "a", "c", "e">>
BarRaceWords == <<"b", "a", "r", " ", "r", "a", "c", "e">>
BarraceWord == <<"b", "a", "r", "r", "a", "c", "e">>
RankingWords == <<"r", "a", "n", "k", "i", "n", "g", " ", "o", "v", "e", "r", " ",
                  "t", "i", "m", "e">>

\* CountryCard.tsx:74-77
wantsBarRace(text) ==
  LET t == toLowerCase(text)
  IN  \/ startsWith(t, SlashRace)
      \/ includes(t, BarRaceWords)
      \/ includes(t, BarraceWord)
      \/ includes(t, RankingWords)

\* CountryCard.tsx:79-82  text.replace(/^\/race\s*/i, '') is the text without a
\* leading "/race" in any case and the white space after it.
normRaceQuery(text) ==
  IF startsWith(toLowerCase(trim(text)), SlashRace)
    THEN trim(IF startsWith(toLowerCase(text), SlashRace)
                THEN trimStart(SubSeq(text, Len(SlashRace) + 1, Len(text)))
                ELSE text)
    ELSE trim(text)

\* ------------------------------------------------------- chat messages

Placeholder == <<"...">>
Answer == <<"content">>
RespondingFallback ==
  <<"I'm having trouble responding right now. Please try again.">>
ConnectingFallback ==
  <<"I'm having trouble connecting to the travel network. Please try again.">>

\* CountryCard.tsx:51  the text of the welcome message
WelcomeText(name) ==
  <<"Hello! I'm your AI guide for ">> \o name \o <<". Ask me anything about travel, food, or culture here!">>

\* CountryCard.tsx:49-54
WelcomeMessage(name) == [id |-> "welcome", role |-> "model", text |-> WelcomeText(name)]

\* What the user can have typed into the chat input.
Inputs == { <<>>, <<" ">>, <<"h", "i">>,
            <<"/", "R", "a", "c", "e", " ", "g", "d", "p">> }

\* The messages a history holds, the calls in flight, and the frames of a
\* payload, at most.
MaxHistory == 3
MaxChats == 2
MaxRaces == 2
MaxFrames == 2

\* Date.now() as a string: of an id only its identity is read
\* (CountryCard.tsx:141), so the clock is the least time t of which neither t
\* nor t + 1 is the id of a message shown or of a stream awaited.
IdsInUse == {chatHistory[i].id : i \in 1..Len(chatHistory)} \cup {ToString(c) : c \in chats}
Now ==
  CHOOSE t \in 1..(2 * (MaxHistory + MaxChats) + 2) :
    /\ {ToString(t), ToString(t + 1)} \cap IdsInUse = {}
    /\ \A u \in 1..(t - 1) : {ToString(u), ToString(u + 1)} \cap IdsInUse # {}

\* ------------------------------------------------- openAIService.ts: chat

\* What the API call of a chat message meets.
ChatOutcomes == {"content", "empty", "no key", "fetch rejected", "http error", "bad body"}

\* openAIService.ts:111-143  the try block of createChatStream: the chunks it
\* passes to onChunk, unless callOpenAI throws
TryChat(outcome) ==
  LET data == callOpenAI(outcome)
  IN  IF data.threw THEN Rejected
      ELSE IF data.content # NULL THEN Resolved(<<Answer>>)
      ELSE Resolved(<<RespondingFallback>>)

\* The function without its catch block.
createChatStream_NoCatch(outcome) ==
  TryChat(outcome)

\* openAIService.ts:105-152  createChatStream: how its promise settles, with
\* the chunks passed to onChunk as its value
createChatStream(outcome) ==
  LET tried == TryChat(outcome)
  IN  IF tried.rejected THEN Resolved(<<ConnectingFallback>>) ELSE tried

\* ---------------------------------------------- CountryCard.tsx: effects

\* CountryCard.tsx:355  the tabs, the chat and the race controls are rendered
CardShown == countryData # NULL /\ ~isLoading

\* CountryCard.tsx:287-290  the effect on [raceFrameIndex, race, raceStatus],
\* run after a render in which one of them changed: the value of racePlaying
\* it leaves, given the one the handler set.
StopEffect(payload, status, index, playing) ==
  IF payload # NULL /\ status = "ready" /\ index >= Val(payload).frames - 1
    THEN FALSE
    ELSE playing

\* An effect that resets the chat and the tab and leaves the race as it is.
CountryEffect_RaceKept(country) ==
  /\ chatHistory' = IF country # NULL THEN <<WelcomeMessage(Val(country).name)>>
                    ELSE chatHistory
  /\ activeTab' = "info"
  /\ UNCHANGED raceVars

\* CountryCard.tsx:46-65  the effect on [country]
CountryEffect(country) ==
  /\ chatHistory' = IF country # NULL THEN <<WelcomeMessage(Val(country).name)>>
                    ELSE chatHistory
  /\ activeTab' = "info"
  /\ race' = NULL
  /\ raceStatus' = "idle"
  /\ raceError' = <<>>
  /\ raceFrameIndex' = 0
  /\ racePlaying' = TRUE
  /\ lastRaceQuery' = <<>>

\* The records App can pass as the country.
CardCountries ==
  {Some(ParsedRecord(name, [lat |-> 0, lng |-> 0])) : name \in {Peru, Chad}}

\* App.tsx:197-202  App renders the card with another country, or with none
\* (App.tsx:66, 74, 82).
CountryProp(country) ==
  /\ country # countryData
  /\ countryData' = country
  /\ CountryEffect(country)
  /\ UNCHANGED <<inputMessage, isTyping, chats, races>>
  /\ UNCHANGED <<theme, selectedLocation, selectedCountryName, isLoading, geoJson,
                 allCountries, searchQuery, isSearchOpen, pending, globeVars, lastEvent>>

\* --------------------------------------------- CountryCard.tsx: handlers

frozenApp == <<appVars, globeVars, lastEvent>>

\* CountryCard.tsx:360, 369, 378  the tab buttons
SelectTab(tab) ==
  /\ CardShown
  /\ activeTab' = tab
  /\ UNCHANGED <<chatVars, raceVars, chats, races, frozenApp>>

\* CountryCard.tsx:467  onChange of the chat input
SetInputMessage(text) ==
  /\ CardShown
  /\ activeTab = "chat"
  /\ text # inputMessage
  /\ inputMessage' = text
  /\ UNCHANGED <<activeTab, chatHistory, isTyping, raceVars, chats, races, frozenApp>>

\* CountryCard.tsx:105-138  handleSendMessage up to its await (the Enter key
\* of the input, line 468, or the send button, line 474, which is disabled
\* while isTyping), with handleGenerateRace up to its await (lines 84-93) where
\* the message asks for a bar race.
handleSendMessage ==
  LET userMsg == [id |-> ToString(Now), role |-> "user", text |-> inputMessage]
      modelMsg == [id |-> ToString(Now + 1), role |-> "model", text |-> Placeholder]
  IN  /\ CardShown
      /\ activeTab = "chat"
      /\ trim(inputMessage) # <<>>
      /\ Len(chatHistory) + 2 <= MaxHistory
      /\ Cardinality(chats) < MaxChats
      /\ wantsBarRace(inputMessage) => races < MaxRaces
      /\ chatHistory' = chatHistory \o <<userMsg, modelMsg>>
      /\ inputMessage' = <<>>
      /\ isTyping' = TRUE
      /\ chats' = chats \cup {Now + 1}
      /\ IF wantsBarRace(inputMessage)
           THEN /\ lastRaceQuery' = normRaceQuery(inputMessage)
                /\ raceStatus' = "generating"
                /\ raceError' = <<>>
                /\ race' = NULL
                /\ raceFrameIndex' = 0
                /\ racePlaying' = TRUE
                /\ races' = races + 1
           ELSE UNCHANGED <<raceVars, races>>
      /\ UNCHANGED <<activeTab, frozenApp>>

\* CountryCard.tsx:138-145  createChatStream settles for the stream of message
\* `chat`: onChunk has replaced the text of that message by the response, and
\* handleSendMessage goes on after its await unless the promise rejected.
ChatResponse(chat, outcome) ==
  LET settled == createChatStream(outcome)
      chunks == settled.value
      fullResponse == IF chunks = <<>> THEN <<>> ELSE chunks[1]
  IN  /\ chat \in chats
      /\ chats' = chats \ {chat}
      /\ chatHistory' =
           IF chunks = <<>> THEN chatHistory
           ELSE [i \in 1..Len(chatHistory) |->
                   IF chatHistory[i].id = ToString(chat)
                     THEN [chatHistory[i] EXCEPT !.text = fullResponse]
                     ELSE chatHistory[i]]
      /\ isTyping' = IF settled.rejected THEN isTyping ELSE FALSE
      /\ UNCHANGED <<activeTab, inputMessage, raceVars, races, frozenApp>>

\* CountryCard.tsx:94-102  generateBarRacePayload settles for one of the calls
\* awaited: with a payload of `frames` frames, or rejected (frames = -1).
RaceResponse(frames) ==
  /\ races > 0
  /\ races' = races - 1
  /\ IF frames >= 1
       THEN /\ race' = Some([frames |-> frames])
            /\ raceStatus' = "ready"
            /\ activeTab' = "race"
            /\ racePlaying' =
                 StopEffect(Some([frames |-> frames]), "ready", raceFrameIndex, racePlaying)
            /\ UNCHANGED raceError
       ELSE /\ raceStatus' = "error"
            /\ raceError' = IF frames = 0 THEN <<"No frames returned.">>
                            ELSE <<"Failed to generate bar race.">>
            /\ UNCHANGED <<race, racePlaying, activeTab>>
  /\ UNCHANGED <<raceFrameIndex, lastRaceQuery, chatVars, chats, frozenApp>>

\* CountryCard.tsx:231-256  the playback effect keeps one interval running
\* while a race is ready and playing; this is a tick of it, with the stop
\* effect where the index changed.
RaceTick ==
  LET next == raceFrameIndex + 1
      index == IF next >= Val(race).frames THEN raceFrameIndex ELSE next
  IN  /\ race # NULL
      /\ raceStatus = "ready"
      /\ racePlaying
      /\ raceFrameIndex' = index
      /\ racePlaying' = IF index # raceFrameIndex
                          THEN StopEffect(race, raceStatus, index, racePlaying)
                          ELSE racePlaying
      /\ UNCHANGED <<race, raceStatus, raceError, lastRaceQuery, activeTab,
                     chatVars, chats, races, frozenApp>>

\* CountryCard.tsx:508-516  the play/pause button
TogglePlaying ==
  /\ CardShown
  /\ activeTab = "race"
  /\ raceStatus = "ready"
  /\ racePlaying' = ~racePlaying
  /\ UNCHANGED <<race, raceStatus, raceError, raceFrameIndex, lastRaceQuery,
                 activeTab, chatVars, chats, races, frozenApp>>

\* CountryCard.tsx:518-529  the restart button
RestartRace ==
  /\ CardShown
  /\ activeTab = "race"
  /\ raceStatus = "ready"
  /\ raceFrameIndex' = 0
  /\ racePlaying' = IF raceFrameIndex # 0
                      THEN StopEffect(race, raceStatus, 0, TRUE)
                      ELSE TRUE
  /\ UNCHANGED <<race, raceStatus, raceError, lastRaceQuery, activeTab,
                 chatVars, chats, races, frozenApp>>

\* CountryCard.tsx:531-542  the regenerate button, with handleGenerateRace up
\* to its await
RegenerateRace ==
  /\ CardShown
  /\ activeTab = "race"
  /\ lastRaceQuery # <<>>
  /\ raceStatus # "generating"
  /\ races < MaxRaces
  /\ raceStatus' = "generating"
  /\ raceError' = <<>>
  /\ race' = NULL
  /\ raceFrameIndex' = 0
  /\ racePlaying' = TRUE
  /\ races' = races + 1
  /\ UNCHANGED <<lastRaceQuery, activeTab, chatVars, chats, frozenApp>>

CardNext ==
  \/ \E country \in CardCountries \cup {NULL} : CountryProp(country)
  \/ \E tab \in {"info", "chat", "race"} : SelectTab(tab)
  \/ \E text \in Inputs : SetInputMessage(text)
  \/ handleSendMessage
  \/ \E chat \in chats, outcome \in ChatOutcomes : ChatResponse(chat, outcome)
  \/ \E frames \in -1..MaxFrames : RaceResponse(frames)
  \/ RaceTick
  \/ TogglePlaying
  \/ RestartRace
  \/ RegenerateRace

CardSpec == Init /\ [][CardNext]_vars

\* The ids a stream awaited can have: Now is odd, since an odd id is in use
\* only together with the even id after it, and the pairs in use are those
\* of the streams awaited and of the history.
ChatIds == {2 * k : k \in 1..(MaxChats + (MaxHistory - 1) \div 2)}

\* The network answers: each createChatStream call awaited settles.
CardFairSpec ==
  /\ CardSpec
  /\ \A chat \in ChatIds :
       WF_vars(\E outcome \in ChatOutcomes : ChatResponse(chat, outcome))

\* ================================================== App.tsx: the search
\*
\* SearchSpec follows the search box over datasets with more countries than
\* the result list shows.

Malta == <<"M", "a", "l", "t", "a">>
Malawi == <<"M", "a", "l", "a", "w", "i">>
Ghana == <<"G", "h", "a", "n", "a">>
Gabon == <<"G", "a", "b", "o", "n">>
Panama == <<"P", "a", "n", "a", "m", "a">>

FMalta == Feature(Malta, Malta, "MT", Polygon(<<Box(14, 35, 15, 36)>>))
FMalawi == Feature(Malawi, Malawi, "MW", Polygon(<<Box(33, -17, 36, -9)>>))
FGhana == Feature(Ghana, Ghana, "GH", Polygon(<<Box(-3, 5, 1, 11)>>))
FGabon == Feature(Gabon, Gabon, "GA", Polygon(<<Box(9, -4, 14, 2)>>))
FPanama == Feature(Panama, Panama, "PA", Polygon(<<Box(-83, 7, -77, 10)>>))

\* The features of the datasets, in an order that is not the alphabet's.
SearchFeatures ==
  <<FPeru, FMalta, FAntarctica, FGhana, FChad, FPanama, FMali, FGabon, FMalawi>>

RECURSIVE Pick(_, _)
Pick(list, indices) ==
  IF list = <<>> THEN <<>>
  ELSE Pick(SubSeq(list, 1, Len(list) - 1), indices)
         \o (IF Len(list) \in indices THEN <<list[Len(list)]>> ELSE <<>>)

\* The datasets the fetch may deliver: every selection of the features.
SearchDatasets == {Pick(SearchFeatures, indices) : indices \in SUBSET (1..Len(SearchFeatures))}

\* The texts typed into the search box.
SearchQueries == { <<"a">>, <<"M", "A">>, <<"a", "n", "t">>, <<"x">> }

SearchNext ==
  \/ \E data \in SearchDatasets : LoadGeoJson(data)
  \/ \E text \in SearchQueries : SetSearchQuery(text)
  \/ FocusSearch
  \/ ClearSearch

SearchSpec == Init /\ [][SearchNext]_vars

\* ------------------------------------------------------------- properties

\* The indices, in the order of the loaded dataset, of the features that
\* contain the coordinates.
ContainingFeatures(coords) ==
  {i \in 1..Len(Val(geoJson)) :
     geoContains(Val(geoJson)[i], <<coords.lng, coords.lat>>)}

\* The name under which the globe knows the i-th feature of the dataset.
NameOfFeature(i) == GlobeFeatureName(Val(geoJson)[i])

\* C1: whenever selectedCountryName is not null, it is the name of a record
\* of the country set derived from the loaded boundary dataset, after any
\* sequence of clicks, search selections and dismissals.
C1_SelectionInCountrySet ==
  selectedCountryName # NULL =>
    /\ geoJson # NULL
    /\ \E i \in 1..Len(Val(geoJson)) : NameOfFeature(i) = Val(selectedCountryName)

\* A country whose NAME differs from its NAME_LONG is selected from the
\* search list.
C1_Witness ==
  /\ lastEvent.kind = "search"
  /\ selectedCountryName = Some(Fiji)

\* C2: when several records contain the clicked coordinates, the hit-test
\* returns the one that comes first in dataset order, and that one is the
\* country selected.
C2_FirstMatchInDatasetOrder ==
  lastEvent.kind = "click" =>
    LET containing == ContainingFeatures(Val(lastEvent.coords))
    IN  containing # {} =>
          \E i \in containing :
            /\ \A j \in containing : i <= j
            /\ lastEvent.found = Some(NameOfFeature(i))
            /\ selectedCountryName = Some(NameOfFeature(i))

\* A click on coordinates that two records contain.
C2_Witness ==
  /\ lastEvent.kind = "click"
  /\ Cardinality(ContainingFeatures(Val(lastEvent.coords))) >= 2
  /\ selectedCountryName = lastEvent.found

\* C3: a click inside no country's boundary finds no country and changes
\* nothing: selection, location, card data and loading flag stay as they were,
\* no details request is issued, and the camera stays where it was.
C3_MissChangesNothing ==
  [][(/\ lastEvent'.kind = "click"
      /\ ContainingFeatures(Val(lastEvent'.coords)) = {})
       => /\ lastEvent'.found = NULL
          /\ UNCHANGED <<appVars, globeVars>>]_vars

\* A click on the open ocean (lat 0, lng -140) while a country is selected and
\* its details are awaited.
C3_Witness ==
  /\ lastEvent.kind = "click"
  /\ lastEvent.found = NULL
  /\ lastEvent.coords = Some([lat |-> 0, lng |-> -140])
  /\ selectedCountryName # NULL
  /\ isLoading

\* The centroid of the i-th feature of the dataset, as { lat, lng }.
CentroidOfFeature(i) ==
  [lat |-> geoCentroid(Val(geoJson)[i])[2], lng |-> geoCentroid(Val(geoJson)[i])[1]]

\* The camera has been sent to the point at distance 2.0 over the coordinates
\* on the globe as it is turned now: taken back to the frame of the mesh, the
\* position of the camera converts to these coordinates.
CameraOver(coords) ==
  /\ getLatLonFromPoint(worldToLocal(rotationY, lookAt)) = coords
  /\ Abs(Length(lookAt) - 2 * Scale) <= 2

\* C4: after a click that finds a country, selectedCountryName is the name of
\* the record found, selectedLocation is the centroid of that record (not the
\* coordinates clicked), and the camera has been sent towards that centroid.
C4_HitSelectsFoundCentroid ==
  (lastEvent.kind = "click" /\ lastEvent.found # NULL) =>
    \E i \in ContainingFeatures(Val(lastEvent.coords)) :
      /\ lastEvent.found = Some(NameOfFeature(i))
      /\ selectedCountryName = Some(NameOfFeature(i))
      /\ selectedLocation = Some(CentroidOfFeature(i))
      /\ CameraOver(CentroidOfFeature(i))

\* A click that finds a country at coordinates other than its centroid.
C4_Witness ==
  /\ lastEvent.kind = "click"
  /\ lastEvent.found # NULL
  /\ selectedLocation # NULL
  /\ selectedLocation # lastEvent.coords

\* C5: handleCloseCard leaves selectedCountryName and selectedLocation null,
\* and once both are null they stay null until a click that finds a country
\* or a selection from the search list.
C5_CloseClearsUntilNextSelection ==
  [][/\ lastEvent'.kind = "close"
          => selectedCountryName' = NULL /\ selectedLocation' = NULL
     /\ (/\ selectedCountryName = NULL /\ selectedLocation = NULL
         /\ ~(selectedCountryName' = NULL /\ selectedLocation' = NULL))
          => \/ lastEvent'.kind = "search"
             \/ lastEvent'.kind = "click" /\ lastEvent'.found # NULL]_vars

\* The details of a country arrive after its card was closed: the selection
\* is still empty.
C5_Witness ==
  /\ lastEvent.kind = "response"
  /\ countryData # NULL
  /\ selectedCountryName = NULL
  /\ selectedLocation = NULL

RawLngs == -360..0

\* The raw longitudes whose normalised value falls outside [-180, 180).
NormalizedOutOfRange == {raw \in RawLngs : NormalizeLng(raw) \notin -180..179}

\* C7: the normalisation ((lng + 540) % 360) - 180 yields a longitude in
\* [-180, 180) for every raw longitude the conversion can produce, 185 becomes
\* -175, and so the longitude of every click is in that range.
C7_NormalizedLngInRange ==
  /\ NormalizedOutOfRange = {}
  /\ NormalizeLng(185) = -175
  /\ lastEvent.kind = "click" =>
       LET raw == RawLng(Val(lastEvent.point))
       IN  /\ raw \in RawLngs
           /\ Val(lastEvent.coords).lng = NormalizeLng(raw)
           /\ Val(lastEvent.coords).lng \in -180..179

\* A click east of Greenwich: its raw longitude is below -180 and the
\* normalisation brings it back by a full turn.
C7_Witness ==
  /\ lastEvent.kind = "click"
  /\ RawLng(Val(lastEvent.point)) < -180
  /\ Val(lastEvent.coords).lng = RawLng(Val(lastEvent.point)) + 360

\* The grid on which the round trip is tried. Beyond 88 degrees of latitude
\* one unit of the fixed-point scale is more than half a degree of longitude.
RoundTripLats == {lat \in -88..88 : lat % 4 = 0}
RoundTripLngs == {lng \in -180..179 : lng % 15 = 0} \cup {-179, 179}
RoundTripRadii == {Scale, (1005 * Scale) \div 1000, 2 * Scale}

\* The grid points that the round trip does not give back.
RoundTripFailures ==
  {c \in RoundTripLats \X RoundTripLngs \X RoundTripRadii :
     getLatLonFromPoint(getPositionFromLatLon(c[1], c[2], c[3]))
       # [lat |-> c[1], lng |-> c[2]]}

\* C8: getLatLonFromPoint(getPositionFromLatLon(lat, lng, r)) gives back
\* (lat, lng) for lat in (-90, 90) and lng in [-180, 180), whatever the radius;
\* a click on the point of (lat, lng) of a globe turned by rotationY is read
\* as (lat, lng - rotationY), normalised.
C8_RoundTrip ==
  /\ RoundTripFailures = {}
  /\ lastEvent.kind = "click" =>
       \E c \in ClickCoords :
         lastEvent.coords = Some([lat |-> c[1], lng |-> NormalizeLng(c[2] - rotationY)])

\* A click on the point of (lat -70, lng 0) is read as (lat -70, lng 0).
C8_Witness ==
  /\ lastEvent.kind = "click"
  /\ rotationY = 0
  /\ lastEvent.point = Some(getPositionFromLatLon(-70, 0, Scale))
  /\ lastEvent.coords = Some([lat |-> -70, lng |-> 0])

\* The click was on the 3D point the globe keeps for the centroid of its i-th
\* record, and that centroid lies inside the record's own boundary.
ClickOnOwnCentroid(i) ==
  /\ lastEvent.point = Some(countries[i].position)
  /\ i \in ContainingFeatures(countries[i].centroid)

\* C9 as first stated: a click on the 3D point of the centroid of a country
\* whose centroid lies inside its own boundary finds that same country.
C9_CentroidResolvesToItself ==
  lastEvent.kind = "click" =>
    \A i \in 1..Len(Val(geoJson)) :
      ClickOnOwnCentroid(i) => lastEvent.found = Some(NameOfFeature(i))

\* C9: a click on the 3D point of the centroid of a country whose centroid
\* lies inside its own boundary finds that same country when no record earlier
\* in dataset order contains the centroid; when one does, the click finds the
\* first such record instead.
C9_CentroidResolvesToFirstContaining ==
  lastEvent.kind = "click" =>
    \A i \in 1..Len(Val(geoJson)) :
      ClickOnOwnCentroid(i) =>
        LET earlier == {j \in ContainingFeatures(countries[i].centroid) : j < i}
        IN  IF earlier = {}
              THEN lastEvent.found = Some(NameOfFeature(i))
              ELSE /\ lastEvent.found # Some(NameOfFeature(i))
                   /\ \E j \in earlier : lastEvent.found = Some(NameOfFeature(j))

\* A click on the centroid of a country that is not the first of the
\* dataset finds it, no earlier record containing the point.
C9_Witness ==
  /\ lastEvent.kind = "click"
  /\ \E i \in 2..Len(Val(geoJson)) :
       /\ ClickOnOwnCentroid(i)
       /\ \A j \in 1..(i - 1) : j \notin ContainingFeatures(countries[i].centroid)
       /\ lastEvent.found = Some(NameOfFeature(i))
       /\ selectedCountryName = Some(NameOfFeature(i))

\* The polygons of the i-th feature, each a sequence of rings, the outer ring
\* first.
PolygonParts(i) ==
  LET geometry == Val(geoJson)[i].geometry
  IN  IF geometry = NULL THEN <<>>
      ELSE IF Val(geometry).type = "Polygon" THEN <<Val(geometry).coordinates>>
      ELSE IF Val(geometry).type = "MultiPolygon" THEN Val(geometry).coordinates
      ELSE <<>>

\* The ring surrounds the coordinates.
InRing(ring, coords) == RingCrossings(ring, <<coords.lng, coords.lat>>) % 2 = 1

\* The coordinates are within the outer ring of a polygon of the i-th feature.
InOuterRing(i, coords) ==
  \E k \in 1..Len(PolygonParts(i)) : InRing(PolygonParts(i)[k][1], coords)

\* The coordinates are within an outer ring of the i-th feature, and wherever
\* they are within an outer ring they are within a hole of that polygon.
InHoleOnly(i, coords) ==
  /\ InOuterRing(i, coords)
  /\ \A k \in 1..Len(PolygonParts(i)) :
       InRing(PolygonParts(i)[k][1], coords) =>
         \E h \in 2..Len(PolygonParts(i)[k]) : InRing(PolygonParts(i)[k][h], coords)

\* C10 as first stated: the hit-test looks at outer rings only, so a click
\* finds the first record one of whose outer rings surrounds the point, a
\* point in a hole of that record included.
C10_OuterRingDecides ==
  lastEvent.kind = "click" =>
    LET outer == {i \in 1..Len(Val(geoJson)) : InOuterRing(i, Val(lastEvent.coords))}
    IN  outer # {} =>
          \E i \in outer :
            /\ \A j \in outer : i <= j
            /\ lastEvent.found = Some(NameOfFeature(i))

\* C10: the hit-test hands the whole feature to d3.geoContains, which consults
\* the inner rings: a click on a point that lies in a hole of a country's
\* polygon does not find that country; it finds the first record that contains
\* the point, holes honoured, or none.
C10_HolesAreConsulted ==
  lastEvent.kind = "click" =>
    \A i \in 1..Len(Val(geoJson)) :
      InHoleOnly(i, Val(lastEvent.coords)) =>
        /\ lastEvent.found # Some(NameOfFeature(i))
        /\ lastEvent.found # NULL =>
             \E j \in 1..Len(Val(geoJson)) :
               /\ j # i
               /\ ~InHoleOnly(j, Val(lastEvent.coords))
               /\ InOuterRing(j, Val(lastEvent.coords))
               /\ lastEvent.found = Some(NameOfFeature(j))

\* A click in the hole of Peru finds Chad, the country that fills the hole.
C10_Witness ==
  /\ lastEvent.kind = "click"
  /\ \E i \in 1..Len(Val(geoJson)) :
       /\ NameOfFeature(i) = Peru
       /\ InHoleOnly(i, Val(lastEvent.coords))
  /\ lastEvent.found = Some(Chad)
  /\ selectedCountryName = Some(Chad)

\* The i-th feature has a geometry of a type the containment test knows.
HasPolygonGeometry(i) ==
  /\ Val(geoJson)[i].geometry # NULL
  /\ Val(Val(geoJson)[i].geometry).type \in {"Polygon", "MultiPolygon"}

\* The features with a polygon geometry that surround the coordinates, holes
\* left out.
SurroundingPolygons(coords) ==
  {i \in 1..Len(Val(geoJson)) :
     HasPolygonGeometry(i) /\ InOuterRing(i, coords) /\ ~InHoleOnly(i, coords)}

\* C11: a record whose geometry is missing or of an unsupported type is never
\* the one found, and the click finds what it would find without such
\* records: the first record with a polygon geometry that contains the point,
\* also when it comes after them in the dataset.
C11_BadGeometrySkipped ==
  lastEvent.kind = "click" =>
    LET hits == SurroundingPolygons(Val(lastEvent.coords))
    IN  /\ \A i \in 1..Len(Val(geoJson)) :
             ~HasPolygonGeometry(i) => lastEvent.found # Some(NameOfFeature(i))
        /\ IF hits = {} THEN lastEvent.found = NULL
           ELSE \E i \in hits :
                  /\ \A j \in hits : i <= j
                  /\ lastEvent.found = Some(NameOfFeature(i))

\* A click finds a country that comes after a record without geometry and
\* after a record of an unsupported type.
C11_Witness ==
  /\ lastEvent.kind = "click"
  /\ \E i \in 1..Len(Val(geoJson)) :
       /\ lastEvent.found = Some(NameOfFeature(i))
       /\ selectedCountryName = Some(NameOfFeature(i))
       /\ \E j \in 1..(i - 1) : Val(geoJson)[j].geometry = NULL
       /\ \E j \in 1..(i - 1) :
            /\ Val(geoJson)[j].geometry # NULL
            /\ ~HasPolygonGeometry(j)

\* C12: the dataset is loaded once: geoJson and allCountries are written by
\* the load that ends the initial empty state and by nothing else, so no
\* click, search, selection, dismissal, response or theme toggle changes them
\* or the records derived from them.
C12_DatasetNeverRewritten ==
  [][/\ (geoJson' # geoJson \/ allCountries' # allCountries)
          => /\ geoJson = NULL
             /\ allCountries = <<>>
             /\ lastEvent'.kind = "load"
     /\ geoJson # NULL => countries' = countries]_vars

\* A card is closed on a turned globe in the dark theme: the search list is
\* still the one derived from the dataset loaded.
C12_Witness ==
  /\ geoJson # NULL
  /\ allCountries = CountriesList(Val(geoJson))
  /\ lastEvent.kind = "close"
  /\ theme = "dark"
  /\ rotationY # 0

\* C13: the hit-test of a click and the selection it causes are one step: the
\* step that runs the hit-test works on the rotation and the records of the
\* state in which the click arrived, writes selectedCountryName and
\* selectedLocation before it ends, and holds the work of no other event (no
\* response is consumed, no card data arrives, the globe does not turn).
C13_ClickIsOneStep ==
  [][lastEvent'.kind = "click" =>
       /\ \E point \in ClickPoints :
            /\ lastEvent'.point = Some(LocalPoints[rotationY, point])
            /\ lastEvent'.coords = Some(LocalCoords[rotationY, point])
       /\ UNCHANGED <<theme, geoJson, allCountries, globeMounted, rotationY>>
       /\ lastEvent'.found # NULL =>
            /\ selectedCountryName' = lastEvent'.found
            /\ selectedLocation' # NULL
            /\ Val(selectedLocation') \in
                 {countries[i].centroid : i \in ContainingFeatures(Val(lastEvent'.coords))}
       /\ \A request \in BagToSet(pending) :
            CopiesIn(request, pending') >= CopiesIn(request, pending)
       /\ countryData' \in {countryData, NULL}]_vars

\* A click finds a country while the details of another country are still
\* awaited: the selection is the country found.
C13_Witness ==
  /\ lastEvent.kind = "click"
  /\ lastEvent.found # NULL
  /\ selectedCountryName = lastEvent.found
  /\ \E request \in BagToSet(pending) : Some(request.name) # selectedCountryName
  /\ BagCardinality(pending) = MaxPending

\* The local points a click can have.
AllLocalPoints == {LocalPoints[r, p] : r \in Rotations, p \in ClickPoints}

\* For each local point and each dataset, the name of the first feature of
\* the dataset that contains the coordinates of the point, or NULL: a table
\* that depends on nothing else.
ResultOf ==
  [point \in AllLocalPoints, data \in Datasets |->
     LET coords == getLatLonFromPoint(point)
         hits == {i \in 1..Len(data) : geoContains(data[i], <<coords.lng, coords.lat>>)}
     IN  IF hits = {} THEN NULL
         ELSE Some(GlobeFeatureName(data[CHOOSE i \in hits : \A j \in hits : i <= j]))]

C15_ReselectIsNoOp ==
  [][(/\ lastEvent'.kind \in {"click", "search"}
      /\ lastEvent'.found # NULL
      /\ lastEvent'.found = selectedCountryName
      /\ countryData # NULL
      /\ Some(Val(countryData).name) = selectedCountryName)
       => UNCHANGED <<selectedCountryName, selectedLocation, searchQuery,
                      isSearchOpen, isLoading, countryData, pending>>]_vars

\* The selected country, its details loaded, is chosen again from the search
\* list: the query stays typed and the list open.
C15_Witness ==
  /\ lastEvent.kind = "search"
  /\ lastEvent.found = selectedCountryName
  /\ countryData # NULL
  /\ Some(Val(countryData).name) = selectedCountryName
  /\ searchQuery # <<>>
  /\ isSearchOpen
  /\ ~isLoading

\* The outcomes that are failures of the API, the network or the parse.
FailureOutcomes == Outcomes \ {"parsed", "empty"}

\* The name and coordinates of every record of every dataset.
RequestArguments ==
  UNION {{<<CountriesMemo[data][i].name, CountriesMemo[data][i].centroid>> :
            i \in 1..Len(data)} : data \in Datasets}

\* The calls of getCountryDetailsByName that reject, that answer a failure
\* with anything but the fallback record, or that return a record of another
\* name or of other coordinates.
DetailsViolations ==
  {c \in RequestArguments \X Outcomes :
     LET settled == getCountryDetailsByName(c[1][1], c[1][2], c[2])
     IN  \/ settled.rejected
         \/ /\ c[2] \in FailureOutcomes
            /\ \/ settled.value = NULL
               \/ Val(settled.value).capital # "Unknown"
               \/ Val(settled.value).population # "Unknown"
               \/ Val(settled.value).touristSites # <<>>
         \/ /\ settled.value # NULL
            /\ \/ Val(settled.value).name # c[1][1]
               \/ Val(settled.value).coordinates # c[1][2]}

\* C16: getCountryDetailsByName never rejects; on a failure of the API, the
\* network or the parse it returns the fallback record (capital and
\* population "Unknown", no tourist sites); every record it returns has the
\* name requested and the coordinates passed. So every response ends the
\* loading state, and the card data is the record of a country of the dataset
\* with that country's centroid.
C16_DetailsNeverReject ==
  /\ DetailsViolations = {}
  /\ lastEvent.kind = "response" => ~isLoading
  /\ countryData # NULL =>
       \E i \in 1..Len(countries) :
         /\ Val(countryData).name = countries[i].name
         /\ Val(countryData).coordinates = countries[i].centroid

\* The request of the selected country failed: the card holds the fallback
\* record for it.
C16_Witness ==
  /\ lastEvent.kind = "response"
  /\ ~isLoading
  /\ countryData # NULL
  /\ Some(Val(countryData).name) = selectedCountryName
  /\ Some(Val(countryData).coordinates) = selectedLocation
  /\ Val(countryData).capital = "Unknown"
  /\ Val(countryData).population = "Unknown"
  /\ Val(countryData).touristSites = <<>>

\* C17: createChatStream never rejects, and where the API call fails it passes
\* the one fixed message to onChunk; the step in which a stream awaited
\* settles sets isTyping to false; and every stream awaited settles, leaving
\* isTyping false.
C17_StreamSettlesAndTypingEnds ==
  /\ [](\A outcome \in ChatOutcomes :
          /\ ~createChatStream(outcome).rejected
          /\ callOpenAI(outcome).threw
               => createChatStream(outcome).value = <<ConnectingFallback>>)
  /\ [](chats \subseteq ChatIds)
  /\ [][\A chat \in chats : chat \notin chats' => ~isTyping']_vars
  /\ \A chat \in ChatIds : (chat \in chats) ~> (chat \notin chats /\ ~isTyping)

\* A stream whose API call failed has settled: its message shows the fixed
\* text, nothing is awaited and isTyping is false.
C17_Witness ==
  /\ \E i \in 1..Len(chatHistory) : chatHistory[i].text = ConnectingFallback
  /\ chats = {}
  /\ ~isTyping

\* A bar race is ready.
RaceReady == race # NULL /\ raceStatus = "ready"

\* C18: while a bar race is ready, raceFrameIndex never exceeds
\* frames.length - 1, a step that advances it advances it by one, and a step
\* that brings it to the last frame leaves racePlaying false.
C18_IndexWithinFrames ==
  /\ [](RaceReady => raceFrameIndex <= Val(race).frames - 1)
  /\ [][RaceReady /\ RaceReady' /\ raceFrameIndex' > raceFrameIndex
          => raceFrameIndex' = raceFrameIndex + 1]_vars
  /\ [][RaceReady' /\ raceFrameIndex' # raceFrameIndex
                   /\ raceFrameIndex' = Val(race').frames - 1
          => ~racePlaying']_vars

\* C19: a step that changes the country of the card leaves the tab 'info',
\* the race state as constructed (no race, 'idle', no error, frame 0, playing,
\* no last query) and, where the new country is not null, a chat history of
\* the one welcome message for that country.
C19_CountryChangeResets ==
  [][countryData' # countryData
       => /\ activeTab' = "info"
          /\ race' = NULL
          /\ raceStatus' = "idle"
          /\ raceError' = <<>>
          /\ raceFrameIndex' = 0
          /\ racePlaying' = TRUE
          /\ lastRaceQuery' = <<>>
          /\ countryData' # NULL
               => chatHistory' = <<WelcomeMessage(Val(countryData').name)>>]_vars

\* The country changed while a chat stream and a bar race were awaited: the
\* history is the welcome message of the new country and the race is idle.
C19_Witness ==
  /\ countryData # NULL
  /\ chatHistory = <<WelcomeMessage(Val(countryData).name)>>
  /\ activeTab = "info"
  /\ chats # {}
  /\ races > 0
  /\ raceStatus = "idle"
  /\ lastRaceQuery = <<>>

\* The records of allCountries whose name contains the query, whatever the
\* case of either.
Matching ==
  {j \in 1..Len(allCountries) :
     includes(toLowerCase(allCountries[j].name), toLowerCase(searchQuery))}

\* C20: the result list is empty for the empty query; it has at most 5
\* entries; each is a record of allCountries whose name contains the query,
\* whatever the case; the entries are in alphabetical order of name; and none
\* is Antarctica.
C20_SearchResults ==
  LET offered == filteredCountries
  IN  /\ searchQuery = <<>> => offered = <<>>
      /\ Len(offered) <= 5
      /\ \A i \in 1..Len(offered) : \E j \in Matching : allCountries[j] = offered[i]
      /\ \A i, j \in 1..Len(offered) :
           i < j => localeCompare(offered[i].name, offered[j].name) <= 0
      /\ \A i \in 1..Len(offered) : offered[i].name # Antarctica

\* The dataset holds Antarctica and more than five other countries whose
\* names contain the query, and five are offered.
C20_Witness ==
  /\ geoJson # NULL
  /\ \E i \in 1..Len(Val(geoJson)) : AppFeatureName(Val(geoJson)[i]) = Antarctica
  /\ includes(toLowerCase(Antarctica), toLowerCase(searchQuery))
  /\ Cardinality(Matching) > 5
  /\ Len(filteredCountries) = 5

\* The outcomes of a generateBarRacePayload call: the number of frames of
\* its payload, or -1 where it rejects.
RaceOutcomes == -1..MaxFrames

\* In every state a ready race has a payload with a frame, and an error has
\* its message.
RaceStatusConsistent ==
  /\ raceStatus = "ready" => race # NULL /\ Val(race).frames >= 1
  /\ raceStatus = "error" => raceError # <<>>

\* The step in which a generation call settles: with a frame it leaves
\* 'ready', without one or rejected it leaves 'error' and a message.
SettleYieldsReadyOrError ==
  \A frames \in RaceOutcomes :
    RaceResponse(frames)
      => IF frames >= 1
           THEN raceStatus' = "ready" /\ race' = Some([frames |-> frames])
           ELSE raceStatus' = "error" /\ raceError' # <<>>

\* C21, as stated: a generation call that settles finds raceStatus
\* 'generating' and leaves it 'ready' or 'error', 'error' with a message where
\* the payload has no frame or the call failed; and in every state 'ready'
\* implies a race with at least one frame.
C21_GeneratingToReadyOrError ==
  /\ [](RaceStatusConsistent)
  /\ [][SettleYieldsReadyOrError]_vars
  /\ [][races' < races => raceStatus = "generating"]_vars

\* The part of C21 that holds: a generation call that settles leaves
\* raceStatus 'ready' or 'error' whatever it finds; raceStatus leaves
\* 'generating' for 'ready' or 'error' only, or for 'idle' with a change of
\* country; and in every state 'ready' implies a race with at least one
\* frame and 'error' a message.
RaceSettlesToReadyOrError ==
  /\ [](RaceStatusConsistent)
  /\ [][SettleYieldsReadyOrError]_vars
  /\ [][raceStatus = "generating" /\ raceStatus' # "generating"
          => \/ races' < races /\ raceStatus' \in {"ready", "error"}
             \/ countryData' # countryData /\ raceStatus' = "idle"]_vars

\* A race became ready after the country changed: the query of its request
\* was reset, and the call settled from 'idle'.
C21_Witness ==
  /\ RaceReady
  /\ lastRaceQuery = <<>>
  /\ races = 0

\* C22: in every state where countryData is not null and a country is
\* selected, the name of countryData is selectedCountryName.
C22_DetailsMatchSelection ==
  countryData # NULL /\ selectedCountryName # NULL
    => Val(countryData).name = Val(selectedCountryName)

\* C23: in every state where countryData is not null a country is selected:
\* no details are shown between a dismissal and the next selection.
C23_NoDetailsAfterDismissal ==
  countryData # NULL => selectedCountryName # NULL

====
